---- MODULE Spec2Model ----
(***************************************************************************)
(* A model of the ScaleGraph Kademlia node: the pending table and the      *)
(* network adapter (Network.Send / Listen / route), the simulated          *)
(* transport (Simnet: GenerateRandomNode, ShutdownNode, StartServer,       *)
(* Route) and the iterative lookup (Node.findNodeLoop).                    *)
(*                                                                         *)
(* Goroutines are tasks with a position (pc).  A channel is a FIFO         *)
(* sequence; an unbuffered channel is a rendezvous of a sender and a       *)
(* receiver.  A sync.RWMutex is held by the tasks whose position lies      *)
(* between its Lock/RLock and the deferred Unlock/RUnlock.                 *)
(***************************************************************************)
EXTENDS Integers, Sequences, FiniteSets, TLC

\* ------------------------------------------------------------- bounds
MaxNodes  == 3   \* nodes the simnet ever generates (node 1 is the master)
MaxSends  == 2   \* calls of Network.Send with a request frame (Spec)
MaxSimSends == 1 \* calls of Network.Send with a request frame (SimSpec)
NetNodes  == 2   \* nodes that are up in Spec
MaxNodeId == 3   \* RandomID() values used as node IDs: 1..MaxNodeId
MaxIp     == 2   \* RandomIP() values: 0..MaxIp
MaxRpcId  == 2   \* RandomID() values used as RPC ids: 1..MaxRpcId
MaxLookupId == 4 \* IDs of the contacts and targets of a lookup: 1..MaxLookupId
MaxReply  == 2   \* contacts in the foundNodes of one FIND_NODE response
WordBits  == 1   \* bits of one word of an ID (uint32 in the source)
MaxTableId == 7  \* IDs of the contacts given to AddContact: 1..MaxTableId, and HighID
MaxCluster == 2  \* the size given to SpawnCluster: 1..MaxCluster

\* ------------------------------------------------- program constants
LISTENER_CAP == 2048   \* make(chan RPC, 2048)
NODE_CHAN_CAP == 128   \* make(chan RPC, 128)
IdWords == 5           \* [5]uint32
KBUCKETVOLUME == 5
REPLICATION == 3
CONCURRENCY == 3
KEYSPACE == IdWords * WordBits   \* the number of buckets: the bits of an ID

Nodes   == 1..MaxNodes
Sends   == 1..MaxSends
NodeIDs == 1..MaxNodeId
IPs     == 0..MaxIp
RpcIDs  == 1..MaxRpcId
Cmds    == {"PING", "ENTER"}

\* The zero values of Go: [5]uint32{} (never returned by RandomID), [4]byte{}.
ZeroID == 0
ZeroIP == 0

VARIABLES
  nodePc,        \* position of GenerateRandomNode / ShutdownNode for each node
  contact,       \* node.Contact: [id, ip]
  spawnedId,     \* simnet.spawned.id
  spawnedIp,     \* simnet.spawned.ip
  spawnedNodes,  \* simnet.spawned.nodes
  chanContent,   \* simnet.chanTable.content: address -> the node whose channel it is
  dropPercent,   \* simnet.dropPercent
  listener,      \* simnet.listener, the channel every node sends on
  emitted,       \* every frame put on simnet.listener so far, in order
  simRoutes,     \* the running goroutines of Simnet.Route
  mailbox,       \* the inbound channel (net.listener) of each node
  nodeRoutes,    \* the running goroutines of Network.route
  dropTasks,     \* the running goroutines of table.DropChan started by route
  table,         \* net.table.content of each node: RPC id -> response channel
  send,          \* the calls of Network.Send with a request frame
  lookup,        \* the call of Node.findNodeLoop: position and local variables
  account,       \* the call of Node.StoreAccount / Node.FindAccount
  cluster,       \* the call of Simnet.SpawnCluster
  rt,            \* node.RoutingTable of each node: bucket index -> contacts
  pinged,        \* the calls of Send made by Node.Ping that are past AddContact
  listenPc       \* net.listener of each node and its Listen loop

vars == <<nodePc, contact, spawnedId, spawnedIp, spawnedNodes, chanContent,
          dropPercent, listener, emitted, simRoutes, mailbox, nodeRoutes,
          dropTasks, table, send, lookup, account, cluster, rt, pinged, listenPc>>

simVars  == <<spawnedId, spawnedIp, spawnedNodes, chanContent, dropPercent>>
nodeVars == <<nodePc, contact>>
callVars == <<account, cluster>>
tableVars == <<rt, pinged>>

\* ------------------------------------------------------------- Go maps
EmptyMap == [k \in {} |-> 0]

MapHas(m, k) == k \in DOMAIN m

MapPut(m, k, v) == [x \in (DOMAIN m) \cup {k} |-> IF x = k THEN v ELSE m[x]]

MapDelete(m, k) == [x \in (DOMAIN m) \ {k} |-> m[x]]

\* slices.Index / slices.Delete on a slice of Contacts
SliceIndex(s, c) ==
  IF \E i \in 1..Len(s) : s[i] = c
  THEN CHOOSE i \in 1..Len(s) : s[i] = c /\ \A j \in 1..(i - 1) : s[j] # c
  ELSE 0

SliceDelete(s, i) == [j \in 1..(Len(s) - 1) |-> IF j < i THEN s[j] ELSE s[j + 1]]

\* ------------------------------------------------------------- frames
NewContact(ip, id) == [id |-> id, ip |-> ip]

ZeroContact == NewContact(ZeroIP, ZeroID)

\* A frame.  seq is its place in `emitted` (0 until it is put on the listener).
ZeroRPC ==
  [id |-> ZeroID, cmd |-> "PING", response |-> FALSE, sender |-> ZeroContact,
   receiver |-> ZeroIP, foundNodes |-> <<>>, seq |-> 0]

GenerateRPC(receiver, sender, cmd) ==
  [ZeroRPC EXCEPT !.cmd = cmd, !.sender = sender, !.receiver = receiver]

\* ------------------------------------------------------------ utilities
\* RandU32 with the upper end included.
RandU32_Inclusive(min, max) == IF min >= max THEN {0} ELSE min..max

\* RandU32: the values rand.Uint32() % (max - min) + min can take; 0 with an
\* error (which randomNode ignores) on an invalid range.
RandU32(min, max) == IF min >= max THEN {0} ELSE min..(max - 1)

\* The values of rand.Float32() that matter, in percent.
Rolls == {0, 99}

DropRoll(roll) == IF dropPercent = 0 THEN FALSE ELSE roll < dropPercent

\* --------------------------------------------------------------- locks
\* simnet.chanTable.RWMutex and simnet.spawned.RWMutex.  GenerateRandomNode and
\* ShutdownNode hold both write locks from their Lock calls to their return;
\* Route holds chanTable.RLock from its first line to its return, and
\* spawned.RLock from the ENTER branch to its return.
ChanWriters ==
  {n \in Nodes : nodePc[n] \in {"g_chan", "g_id", "g_ip", "g_reg", "s_chan", "s_del", "s_sig"}}

SpawnedWriters ==
  {n \in Nodes : nodePc[n] \in {"g_id", "g_ip", "g_reg", "s_del", "s_sig"}}

ChanReaders == {t \in simRoutes : t.pc \in {"enter", "roll", "send"}}

SpawnedReaders == {t \in simRoutes : t.pc \in {"roll", "send"} /\ t.rpc.cmd = "ENTER"}

\* sync.RWMutex: Lock waits for every holder, RLock for the writer.
CanLock(writers, readers) == writers = {} /\ readers = {}

CanRLock(writers) == writers = {}

\* ------------------------------------------------- GenerateRandomNode
\* The rejection loop of GenerateRandomNode never entered.
IdTaken_Never(id) == FALSE

IdTaken(id) == id \in spawnedId

IpTaken(ip) == ip \in spawnedIp

GenLockChan(n) ==
  /\ nodePc[n] = "new"
  /\ CanLock(ChanWriters, ChanReaders)
  /\ nodePc' = [nodePc EXCEPT ![n] = "g_chan"]
  /\ UNCHANGED <<lookup, callVars, tableVars, listenPc, contact, simVars, listener, emitted, simRoutes, mailbox,
                 nodeRoutes, dropTasks, table, send>>

GenLockSpawned(n) ==
  /\ nodePc[n] = "g_chan"
  /\ CanLock(SpawnedWriters, SpawnedReaders)
  /\ nodePc' = [nodePc EXCEPT ![n] = "g_id"]
  /\ UNCHANGED <<lookup, callVars, tableVars, listenPc, contact, simVars, listener, emitted, simRoutes, mailbox,
                 nodeRoutes, dropTasks, table, send>>

\* id := RandomID(); for ok { id = RandomID() }; spawned.id[id] = true
GenPickID(n) ==
  /\ nodePc[n] = "g_id"
  /\ \E id \in NodeIDs :
       IF IdTaken(id)
       THEN UNCHANGED <<nodePc, contact, spawnedId>>
       ELSE /\ spawnedId' = spawnedId \cup {id}
            /\ contact' = [contact EXCEPT ![n].id = id]
            /\ nodePc' = [nodePc EXCEPT ![n] = "g_ip"]
  /\ UNCHANGED <<lookup, callVars, tableVars, listenPc, spawnedIp, spawnedNodes, chanContent, dropPercent, listener,
                 emitted, simRoutes, mailbox, nodeRoutes, dropTasks, table, send>>

\* ip := RandomIP(); for ok { ip = RandomIP() }; spawned.ip[ip] = true
GenPickIP(n) ==
  /\ nodePc[n] = "g_ip"
  /\ \E ip \in IPs :
       IF IpTaken(ip)
       THEN UNCHANGED <<nodePc, contact, spawnedIp>>
       ELSE /\ spawnedIp' = spawnedIp \cup {ip}
            /\ contact' = [contact EXCEPT ![n].ip = ip]
            /\ nodePc' = [nodePc EXCEPT ![n] = "g_reg"]
  /\ UNCHANGED <<lookup, callVars, tableVars, listenPc, spawnedId, spawnedNodes, chanContent, dropPercent, listener,
                 emitted, simRoutes, mailbox, nodeRoutes, dropTasks, table, send>>

\* nodes = append(nodes, NewContact(ip, id)); chanTable.content[ip] = nodeReceiver;
\* NewNode(...); return (the deferred Unlocks)
GenRegister(n) ==
  /\ nodePc[n] = "g_reg"
  /\ spawnedNodes' = Append(spawnedNodes, NewContact(contact[n].ip, contact[n].id))
  /\ chanContent' = MapPut(chanContent, contact[n].ip, n)
  /\ nodePc' = [nodePc EXCEPT ![n] = "live"]
  /\ UNCHANGED <<lookup, callVars, tableVars, listenPc, contact, spawnedId, spawnedIp, dropPercent, listener, emitted,
                 simRoutes, mailbox, nodeRoutes, dropTasks, table, send>>

\* ------------------------------------------------------- ShutdownNode
\* SpawnCluster shuts down only nodes of the cluster it spawned, each once;
\* the master node (node 1) is never shut down.
ShutLockChan(n) ==
  /\ nodePc[n] = "live"
  /\ n # 1
  /\ CanLock(ChanWriters, ChanReaders)
  /\ nodePc' = [nodePc EXCEPT ![n] = "s_chan"]
  /\ UNCHANGED <<lookup, callVars, tableVars, listenPc, contact, simVars, listener, emitted, simRoutes, mailbox,
                 nodeRoutes, dropTasks, table, send>>

ShutLockSpawned(n) ==
  /\ nodePc[n] = "s_chan"
  /\ CanLock(SpawnedWriters, SpawnedReaders)
  /\ nodePc' = [nodePc EXCEPT ![n] = "s_del"]
  /\ UNCHANGED <<lookup, callVars, tableVars, listenPc, contact, simVars, listener, emitted, simRoutes, mailbox,
                 nodeRoutes, dropTasks, table, send>>

\* ShutdownNode without delete(simnet.chanTable.content, node.IP()).
ShutDelete_KeepMailbox(n) ==
  /\ nodePc[n] = "s_del"
  /\ spawnedIp' = spawnedIp \ {contact[n].ip}
  /\ spawnedId' = spawnedId \ {contact[n].id}
  /\ LET i == SliceIndex(spawnedNodes, contact[n])
     IN  spawnedNodes' = IF i # 0 THEN SliceDelete(spawnedNodes, i) ELSE spawnedNodes
  /\ nodePc' = [nodePc EXCEPT ![n] = "s_sig"]
  /\ UNCHANGED <<lookup, callVars, tableVars, listenPc, contact, chanContent, dropPercent, listener,
                 emitted, simRoutes, mailbox, nodeRoutes, dropTasks, table, send>>

\* delete(chanTable.content, ip); delete(spawned.ip, ip); delete(spawned.id, id);
\* i := slices.Index(nodes, node.Contact); if i != -1 { nodes = slices.Delete(nodes, i, i+1) }
ShutDelete(n) ==
  /\ nodePc[n] = "s_del"
  /\ chanContent' = MapDelete(chanContent, contact[n].ip)
  /\ spawnedIp' = spawnedIp \ {contact[n].ip}
  /\ spawnedId' = spawnedId \ {contact[n].id}
  /\ LET i == SliceIndex(spawnedNodes, contact[n])
     IN  spawnedNodes' = IF i # 0 THEN SliceDelete(spawnedNodes, i) ELSE spawnedNodes
  /\ nodePc' = [nodePc EXCEPT ![n] = "s_sig"]
  /\ UNCHANGED <<lookup, callVars, tableVars, listenPc, contact, dropPercent, listener, emitted, simRoutes, mailbox,
                 nodeRoutes, dropTasks, table, send>>

\* node.shutdown <- struct{}{}; return (the deferred Unlocks).  The send completes
\* when the node takes the signal.
ShutSignal(n) ==
  /\ nodePc[n] = "s_sig"
  /\ nodePc' = [nodePc EXCEPT ![n] = "down"]
  /\ UNCHANGED <<lookup, callVars, tableVars, listenPc, contact, simVars, listener, emitted, simRoutes, mailbox,
                 nodeRoutes, dropTasks, table, send>>

\* ------------------------------------------------ StartServer and Route
\* rpc := <-simnet.listener; go simnet.Route(rpc)
StartServer ==
  /\ listener # <<>>
  /\ simRoutes' = simRoutes \cup {[rpc |-> Head(listener), pc |-> "start", routeChan |-> 0]}
  /\ listener' = Tail(listener)
  /\ UNCHANGED <<lookup, callVars, tableVars, listenPc, nodeVars, simVars, emitted, mailbox, nodeRoutes, dropTasks, table, send>>

\* chanTable.RLock(); routeChan, ok := content[rpc.receiver]; if !ok { return }
RouteLookup(t) ==
  /\ t.pc = "start"
  /\ CanRLock(ChanWriters)
  /\ simRoutes' =
       IF ~MapHas(chanContent, t.rpc.receiver)
       THEN simRoutes \ {t}
       ELSE (simRoutes \ {t}) \cup
              {[t EXCEPT !.routeChan = chanContent[t.rpc.receiver],
                         !.pc = IF t.rpc.cmd = "ENTER" THEN "enter" ELSE "roll"]}
  /\ UNCHANGED <<lookup, callVars, tableVars, listenPc, nodeVars, simVars, listener, emitted, mailbox, nodeRoutes,
                 dropTasks, table, send>>

\* randomNode: index, _ := RandU32(0, len(nodes)); return nodes[index]
randomNode(index) == spawnedNodes[index + 1]

\* The ENTER branch of Route.
EnterRewrite(rpc, n1, n2) == [rpc EXCEPT !.foundNodes = <<n1, n2>>, !.response = TRUE]

\* An index out of range panics; the task stays at "panic".
RouteEnter(t) ==
  /\ t.pc = "enter"
  /\ CanRLock(SpawnedWriters)
  /\ \E i1, i2 \in RandU32(0, Len(spawnedNodes)) :
       simRoutes' =
         IF i1 + 1 > Len(spawnedNodes) \/ i2 + 1 > Len(spawnedNodes)
         THEN (simRoutes \ {t}) \cup {[t EXCEPT !.pc = "panic"]}
         ELSE (simRoutes \ {t}) \cup
                {[t EXCEPT !.rpc = EnterRewrite(t.rpc, randomNode(i1), randomNode(i2)),
                           !.pc = "roll"]}
  /\ UNCHANGED <<lookup, callVars, tableVars, listenPc, nodeVars, simVars, listener, emitted, mailbox, nodeRoutes,
                 dropTasks, table, send>>

\* if simnet.DropRoll() { return }
RouteRoll(t) ==
  /\ t.pc = "roll"
  /\ \E roll \in Rolls :
       simRoutes' = IF DropRoll(roll)
                    THEN simRoutes \ {t}
                    ELSE (simRoutes \ {t}) \cup {[t EXCEPT !.pc = "send"]}
  /\ UNCHANGED <<lookup, callVars, tableVars, listenPc, nodeVars, simVars, listener, emitted, mailbox, nodeRoutes,
                 dropTasks, table, send>>

\* routeChan <- rpc; return
RouteSend(t) ==
  /\ t.pc = "send"
  /\ Len(mailbox[t.routeChan]) < NODE_CHAN_CAP
  /\ mailbox' = [mailbox EXCEPT ![t.routeChan] = Append(@, t.rpc)]
  /\ simRoutes' = simRoutes \ {t}
  /\ UNCHANGED <<lookup, callVars, tableVars, listenPc, nodeVars, simVars, listener, emitted, nodeRoutes, dropTasks, table, send>>

\* -------------------------------------------------------- pending table
\* Add without the check for an id in use.
TableAdd_Overwrite(m, id, ch) == [content |-> MapPut(m, id, ch), err |-> FALSE]

\* table.Add: [content, err], the channel returned is the caller's fresh one in
\* both branches (on an id in use it is not entered into the table).
TableAdd(m, id, ch) ==
  IF MapHas(m, id)
  THEN [content |-> m, err |-> TRUE]
  ELSE [content |-> MapPut(m, id, ch), err |-> FALSE]

\* RetrieveChan taking an entry whatever its id.
RetrieveChan_AnyEntry(m, id) ==
  IF DOMAIN m = {}
  THEN [content |-> m, ch |-> 0, err |-> TRUE]
  ELSE LET k == CHOOSE k \in DOMAIN m : TRUE
       IN  [content |-> MapDelete(m, k), ch |-> m[k], err |-> FALSE]

\* RetrieveChan leaving the entry in the table.
RetrieveChan_NoDelete(m, id) ==
  IF ~MapHas(m, id)
  THEN [content |-> m, ch |-> 0, err |-> TRUE]
  ELSE [content |-> m, ch |-> m[id], err |-> FALSE]

\* RetrieveChan reporting no error for an id that is not in the table.
RetrieveChan_NoError(m, id) ==
  IF ~MapHas(m, id)
  THEN [content |-> m, ch |-> 0, err |-> FALSE]
  ELSE [content |-> MapDelete(m, id), ch |-> m[id], err |-> FALSE]

\* table.RetrieveChan: [content, ch, err]; ch = 0 is the nil channel.
RetrieveChan(m, id) ==
  IF ~MapHas(m, id)
  THEN [content |-> m, ch |-> 0, err |-> TRUE]
  ELSE [content |-> MapDelete(m, id), ch |-> m[id], err |-> FALSE]

\* table.DropChan
DropChan(m, id) == MapDelete(m, id)

\* ------------------------------------------------------- Network.Send
\* A node exists once GenerateRandomNode has returned it.
Created(n) == nodePc[n] \in {"live", "s_chan", "s_del", "s_sig", "down"}

\* The response channel made by the Add of call s is named s.
\* rpc.id = RandomID(); respChan, _ := net.Add(rpc.id)
\* The callers: Node.Ping sends a PING to any address, Node.Enter an ENTER
\* addressed to the node itself.
SendAdd(s) ==
  /\ send[s].pc = "idle"
  /\ \A s0 \in Sends : s0 < s => send[s0].pc # "idle"
  /\ \E n \in Nodes, cmd \in Cmds, receiver \in IPs, id \in RpcIDs :
       /\ Created(n)
       /\ cmd = "ENTER" => receiver = contact[n].ip
       /\ LET r == TableAdd(table[n], id, s)
          IN  /\ table' = [table EXCEPT ![n] = r.content]
              /\ send' = [send EXCEPT ![s] =
                   [pc |-> "emit", node |-> n, err |-> r.err, res |-> ZeroRPC,
                    rpc |-> [GenerateRPC(receiver, contact[n], cmd) EXCEPT !.id = id]]]
  /\ UNCHANGED <<lookup, callVars, tableVars, listenPc, nodeVars, simVars, listener, emitted, simRoutes, mailbox,
                 nodeRoutes, dropTasks>>

\* net.sender <- rpc
SendEmit(s) ==
  /\ send[s].pc = "emit"
  /\ Len(listener) < LISTENER_CAP
  /\ LET rpc == [send[s].rpc EXCEPT !.seq = Len(emitted) + 1]
     IN  /\ listener' = Append(listener, rpc)
         /\ emitted' = Append(emitted, rpc)
         /\ send' = [send EXCEPT ![s].pc = "wait", ![s].rpc = rpc]
  /\ UNCHANGED <<lookup, callVars, tableVars, listenPc, nodeVars, simVars, simRoutes, mailbox, nodeRoutes, dropTasks, table>>

\* ------------------------------------------- Network.Listen and route
\* rpc, ok := <-net.listener; go net.route(node, rpc).  A closed channel still
\* hands out the frames it holds.
Listen(n) ==
  /\ Created(n)
  /\ listenPc[n] # "serverdown"
  /\ mailbox[n] # <<>>
  /\ nodeRoutes' = nodeRoutes \cup
       {[node |-> n, rpc |-> Head(mailbox[n]), pc |-> "route", respChan |-> 0]}
  /\ mailbox' = [mailbox EXCEPT ![n] = Tail(@)]
  /\ UNCHANGED <<lookup, callVars, tableVars, listenPc, nodeVars, simVars, listener, emitted, simRoutes, dropTasks, table, send>>

\* Listen going on after the channel was closed (ok not looked at).
ListenClosed_Spin(n) ==
  /\ listenPc[n] = "closed"
  /\ mailbox[n] = <<>>
  /\ UNCHANGED vars

\* rpc, ok := <-net.listener; if !ok { return errors.New("server down") }
ListenClosed(n) ==
  /\ listenPc[n] = "closed"
  /\ mailbox[n] = <<>>
  /\ listenPc' = [listenPc EXCEPT ![n] = "serverdown"]
  /\ UNCHANGED <<lookup, callVars, tableVars, nodeVars, simVars, listener, emitted,
                 simRoutes, mailbox, nodeRoutes, dropTasks, table, send>>

\* The node takes the shutdown signal and closes its inbound channel.
NodeShutdown(n) ==
  /\ nodePc[n] = "down"
  /\ listenPc[n] = "open"
  /\ listenPc' = [listenPc EXCEPT ![n] = "closed"]
  /\ UNCHANGED <<lookup, callVars, tableVars, nodeVars, simVars, listener, emitted,
                 simRoutes, mailbox, nodeRoutes, dropTasks, table, send>>

\* rpc.response: respChan, err := net.RetrieveChan(rpc.id); on an error the task goes
\* on to log it; otherwise go net.DropChan(rpc.id) and the task goes on to post.
RouteRetrieve(t) ==
  /\ t.pc = "route"
  /\ t.rpc.response
  /\ LET r == RetrieveChan(table[t.node], t.rpc.id)
     IN  IF r.err
         THEN /\ nodeRoutes' = (nodeRoutes \ {t}) \cup {[t EXCEPT !.pc = "nomatch"]}
              /\ UNCHANGED <<table, dropTasks>>
         ELSE /\ nodeRoutes' = (nodeRoutes \ {t}) \cup
                                 {[t EXCEPT !.pc = "post", !.respChan = r.ch]}
              /\ table' = [table EXCEPT ![t.node] = r.content]
              /\ dropTasks' = dropTasks \cup
                                {[node |-> t.node, id |-> t.rpc.id, by |-> t.rpc.seq]}
  /\ UNCHANGED <<lookup, callVars, tableVars, listenPc, nodeVars, simVars, listener, emitted, simRoutes, mailbox, send>>

\* log.Println(errMsg); return
RouteNoMatch(t) ==
  /\ t.pc = "nomatch"
  /\ nodeRoutes' = nodeRoutes \ {t}
  /\ UNCHANGED <<lookup, callVars, tableVars, listenPc, nodeVars, simVars, listener, emitted, simRoutes, mailbox,
                 dropTasks, table, send>>

\* respChan <- rpc in route meets res := <-respChan in Send; return res, nil
RoutePost(t) ==
  /\ t.pc = "post"
  /\ t.respChan \in Sends
  /\ send[t.respChan].pc = "wait"
  /\ send' = [send EXCEPT ![t.respChan].pc = "done", ![t.respChan].res = t.rpc]
  /\ nodeRoutes' = nodeRoutes \ {t}
  /\ UNCHANGED <<lookup, callVars, tableVars, listenPc, nodeVars, simVars, listener, emitted, simRoutes, mailbox,
                 dropTasks, table>>

\* The goroutine of go net.DropChan(rpc.id)
RunDropChan(d) ==
  /\ table' = [table EXCEPT ![d.node] = DropChan(@, d.id)]
  /\ dropTasks' = dropTasks \ {d}
  /\ UNCHANGED <<lookup, callVars, tableVars, listenPc, nodeVars, simVars, listener, emitted, simRoutes, mailbox,
                 nodeRoutes, send>>

\* ------------------------------------------------ IDs and distances
RECURSIVE Xor(_, _)
Xor(a, b) ==
  IF a = 0 THEN b
  ELSE IF b = 0 THEN a
  ELSE 2 * Xor(a \div 2, b \div 2) + ((a + b) % 2)

\* Word i of an ID, i = 1 the most significant ([5]uint32, index i - 1).
Word(id, i) == (id \div (2 ^ (WordBits * (IdWords - i)))) % (2 ^ WordBits)

RelativeDistance(nodeA, nodeB) ==
  [i \in 1..IdWords |-> Xor(Word(nodeA, i), Word(nodeB, i))]

\* The first word in which two arrays differ, 0 when they are equal.
FirstDiff(x, y) ==
  IF \E i \in 1..IdWords : x[i] # y[i]
  THEN CHOOSE i \in 1..IdWords : x[i] # y[i] /\ \A j \in 1..(i - 1) : x[j] = y[j]
  ELSE 0

\* CloserNode with the comparison the other way round.
CloserNode_Farther(nodeA, nodeB, target) ==
  LET distA == RelativeDistance(nodeA, target)
      distB == RelativeDistance(nodeB, target)
      i == FirstDiff(distA, distB)
  IN  i # 0 /\ distA[i] > distB[i]

CloserNode(nodeA, nodeB, target) ==
  LET distA == RelativeDistance(nodeA, target)
      distB == RelativeDistance(nodeB, target)
      i == FirstDiff(distA, distB)
  IN  i # 0 /\ distA[i] < distB[i]

EquiDistantNode(nodeA, nodeB, target) ==
  RelativeDistance(nodeA, target) = RelativeDistance(nodeB, target)

LargerNode(nodeA, nodeB) ==
  LET a == [i \in 1..IdWords |-> Word(nodeA, i)]
      b == [i \in 1..IdWords |-> Word(nodeB, i)]
      i == FirstDiff(a, b)
  IN  i # 0 /\ a[i] > b[i]

\* The IDs the model compares, and the comparisons of the sort looked up in
\* tables that are computed once.
ComparedIDs == 0..MaxLookupId

CloserTable ==
  [a \in ComparedIDs, b \in ComparedIDs, t \in ComparedIDs |-> CloserNode(a, b, t)]

TieTable ==
  [a \in ComparedIDs, b \in ComparedIDs, t \in ComparedIDs |->
     EquiDistantNode(a, b, t) /\ LargerNode(a, b)]

Swap(s, j) == [s EXCEPT ![j] = s[j + 1], ![j + 1] = s[j]]

\* One pass of the inner loop of SortContactsByDistance, from position j on.
RECURSIVE SortPass(_, _, _)
SortPass(s, j, target) ==
  IF j >= Len(s) THEN s
  ELSE LET nodeA == s[j]
           nodeB == s[j + 1]
       IN  IF CloserTable[nodeB.id, nodeA.id, target]
           THEN SortPass(Swap(s, j), j + 1, target)
           ELSE IF TieTable[nodeA.id, nodeB.id, target]
           THEN SortPass(Swap(s, j), j + 1, target)
           ELSE SortPass(s, j + 1, target)

\* The outer loop: passes i, i + 1, ..., len - 1.
RECURSIVE SortFrom(_, _, _)
SortFrom(s, i, target) ==
  IF i >= Len(s) THEN s ELSE SortFrom(SortPass(s, 1, target), i + 1, target)

SortContactsByDistance(s, target) == SortFrom(s, 1, target)

\* set = append(set[:i-1], set[i:]...) drops the element before position i
\* (positions from 0 in the source, from 1 here).
RECURSIVE DedupFrom(_, _)
DedupFrom(s, i) ==
  IF i <= 1 THEN s
  ELSE IF s[i].id = s[i - 1].id
       THEN DedupFrom(SubSeq(s, 1, i - 2) \o SubSeq(s, i, Len(s)), i - 1)
       ELSE DedupFrom(s, i - 1)

RemoveDuplicateContacts(s) == DedupFrom(s, Len(s))

\* ------------------------------------------------- Node.findNodeLoop
LookupIDs == 1..MaxLookupId

\* A node keeps one address: the contact of the node with this ID.
ContactOf(id) == NewContact(ZeroIP, id)

\* The sequences over S of length at most n.
SeqsUpTo(S, n) == UNION {[1..k -> S] : k \in 0..n}

\* The foundNodes a peer may answer a FIND_NODE with.
ReplyLists == SeqsUpTo({ContactOf(id) : id \in LookupIDs}, MaxReply)

\* What FindXClosest(REPLICATION, target) may return: at most REPLICATION
\* contacts, no ID twice, sorted by distance to target.
InitLists(target) ==
  {SortContactsByDistance(l, target) :
     l \in {q \in SeqsUpTo({ContactOf(id) : id \in LookupIDs}, REPLICATION) :
              \A i, j \in 1..Len(q) : i < j => q[i].id < q[j].id}}

\* probed holds the IDs of the contacts a FIND_NODE was sent to in this lookup.
NoLookup ==
  [pc |-> "idle", target |-> ZeroID, prevContactList |-> <<>>, contactList |-> <<>>,
   waiting |-> 0, iter |-> 0, found |-> <<>>, probed |-> {}]

\* for _, n := range prevContactList { go node.findNodeQuery(rpc, respChan) }
LaunchQueries ==
  /\ lookup.pc = "query"
  /\ lookup' = [lookup EXCEPT
                  !.pc = "collect", !.waiting = Len(lookup.prevContactList), !.iter = @ + 1,
                  !.probed = @ \cup {lookup.prevContactList[k].id :
                                       k \in 1..Len(lookup.prevContactList)}]
  /\ UNCHANGED <<callVars, tableVars, listenPc, nodeVars, simVars, listener, emitted,
                 simRoutes, mailbox, nodeRoutes, dropTasks, table, send>>

\* resp, ok := <-respChan; contactList = append(contactList, resp...)
\* (findNodeQuery posts the foundNodes of the response its Send returned)
ExtractReply ==
  /\ lookup.pc = "collect"
  /\ lookup.waiting > 0
  /\ \E resp \in ReplyLists :
       lookup' = [lookup EXCEPT !.contactList = @ \o resp, !.waiting = @ - 1]
  /\ UNCHANGED <<callVars, tableVars, listenPc, nodeVars, simVars, listener, emitted,
                 simRoutes, mailbox, nodeRoutes, dropTasks, table, send>>

\* SortContactsByDistance; RemoveDuplicateContacts; the cut to REPLICATION
Processed(contactList, target) ==
  LET l == RemoveDuplicateContacts(SortContactsByDistance(contactList, target))
  IN  IF Len(l) > CONCURRENCY THEN SubSeq(l, 1, REPLICATION) ELSE l

\* The end of one iteration: return contactList, return prevContactList, or go on
\* with contactList as the next prevContactList.
Decide(contactList, prev, target) ==
  IF Len(contactList) > 0 /\ Len(prev) > 0
  THEN IF ~CloserTable[contactList[1].id, prev[1].id, target]
       THEN [lookup EXCEPT !.pc = "returned", !.contactList = contactList,
                           !.found = contactList]
       ELSE [lookup EXCEPT !.pc = "query", !.prevContactList = contactList,
                           !.contactList = <<>>]
  ELSE IF Len(contactList) = 0
  THEN [lookup EXCEPT !.pc = "returned", !.contactList = contactList, !.found = prev]
  ELSE [lookup EXCEPT !.pc = "query", !.prevContactList = contactList,
                      !.contactList = <<>>]

ProcessReplies ==
  /\ lookup.pc = "collect"
  /\ lookup.waiting = 0
  /\ lookup' = Decide(Processed(lookup.contactList, lookup.target),
                      lookup.prevContactList, lookup.target)
  /\ UNCHANGED <<callVars, tableVars, listenPc, nodeVars, simVars, listener, emitted,
                 simRoutes, mailbox, nodeRoutes, dropTasks, table, send>>

\* ------------------------------- Node.StoreAccount, Node.FindAccount
\* respChan is the channel make(chan bool, REPLICATION); replies are the
\* findAccountSucc of the responses in the order of the queries.
NoAccount ==
  [pc |-> "idle", accID |-> ZeroID, stored |-> FALSE, closeNodes |-> <<>>, i |-> 0,
   succ |-> FALSE, respChan |-> <<>>, replies |-> <<>>, received |-> 0,
   foundAccountNodes |-> 0, err |-> FALSE]

\* validators := node.FindNode(accID); for each validator an RPC is built and
\* dropped: nothing is sent.
StoreAccount ==
  /\ account.pc = "start"
  /\ ~account.stored
  /\ \E validators \in InitLists(account.accID) :
       account' = [account EXCEPT !.stored = TRUE]
  /\ UNCHANGED <<lookup, cluster, tableVars, listenPc, nodeVars, simVars, listener,
                 emitted, simRoutes, mailbox, nodeRoutes, dropTasks, table, send>>

\* closeNodes := node.FindNode(accID); respChan := make(chan bool, REPLICATION)
FindAccountStart ==
  /\ account.pc = "start"
  /\ \E closeNodes \in InitLists(account.accID) :
       account' = [account EXCEPT !.pc = IF closeNodes = <<>> THEN "count" ELSE "query",
                                  !.closeNodes = closeNodes, !.i = 1]
  /\ UNCHANGED <<lookup, cluster, tableVars, listenPc, nodeVars, simVars, listener,
                 emitted, simRoutes, mailbox, nodeRoutes, dropTasks, table, send>>

\* findAccountQuery: res, err := node.Send(rpc) returns the response of
\* closeNodes[i], with err = nil.
FindAccountQuery ==
  /\ account.pc = "query"
  /\ \E findAccountSucc \in BOOLEAN :
       account' = [account EXCEPT !.pc = "push", !.succ = findAccountSucc,
                                  !.replies = Append(@, findAccountSucc)]
  /\ UNCHANGED <<lookup, cluster, tableVars, listenPc, nodeVars, simVars, listener,
                 emitted, simRoutes, mailbox, nodeRoutes, dropTasks, table, send>>

\* if err == nil { respChan <- res.findAccountSucc }: waits while respChan is full.
PushSucc ==
  /\ account.pc = "push"
  /\ Len(account.respChan) < REPLICATION
  /\ account' = [account EXCEPT !.pc = "pushFalse", !.respChan = Append(@, account.succ)]
  /\ UNCHANGED <<lookup, cluster, tableVars, listenPc, nodeVars, simVars, listener,
                 emitted, simRoutes, mailbox, nodeRoutes, dropTasks, table, send>>

\* respChan <- false, after the if: waits while respChan is full.  Then the next
\* query, or the counting loop after the last one.
PushFalse ==
  /\ account.pc = "pushFalse"
  /\ Len(account.respChan) < REPLICATION
  /\ account' = [account EXCEPT
                   !.pc = IF account.i = Len(account.closeNodes) THEN "count" ELSE "query",
                   !.i = @ + 1, !.respChan = Append(@, FALSE)]
  /\ UNCHANGED <<lookup, cluster, tableVars, listenPc, nodeVars, simVars, listener,
                 emitted, simRoutes, mailbox, nodeRoutes, dropTasks, table, send>>

\* _, ok := <-respChan: the value is dropped, ok is true of an open channel.
CountReply ==
  /\ account.pc = "count"
  /\ account.received < Len(account.closeNodes)
  /\ account.respChan # <<>>
  /\ account' = [account EXCEPT !.respChan = Tail(@), !.received = @ + 1,
                                !.foundAccountNodes = @ + 1]
  /\ UNCHANGED <<lookup, cluster, tableVars, listenPc, nodeVars, simVars, listener,
                 emitted, simRoutes, mailbox, nodeRoutes, dropTasks, table, send>>

\* if foundAccountNodes == REPLICATION { return closeNodes, nil } else an error
FindAccountReturn ==
  /\ account.pc = "count"
  /\ account.received = Len(account.closeNodes)
  /\ account' = [account EXCEPT !.pc = "returned",
                                !.err = (account.foundAccountNodes # REPLICATION)]
  /\ UNCHANGED <<lookup, cluster, tableVars, listenPc, nodeVars, simVars, listener,
                 emitted, simRoutes, mailbox, nodeRoutes, dropTasks, table, send>>

\* ------------------------------------------------ the routing table
\* NewRoutingTable(id, KEYSPACE, KBUCKETVOLUME): KEYSPACE empty buckets.
NewRoutingTable == [b \in 0..(KEYSPACE - 1) |-> <<>>]

\* bits.LeadingZeros32 on a word of WordBits bits
RECURSIVE LeadingZeros(_, _)
LeadingZeros(w, bits) ==
  IF bits = 0 THEN 0
  ELSE IF w >= 2 ^ (bits - 1) THEN 0
  ELSE 1 + LeadingZeros(w, bits - 1)

\* DistPrefixLength without the break: the leading zeros of every word added up.
RECURSIVE PrefixFrom_NoBreak(_, _, _)
PrefixFrom_NoBreak(idA, idB, i) ==
  IF i > IdWords THEN 0
  ELSE LeadingZeros(Xor(Word(idA, i), Word(idB, i)), WordBits)
         + PrefixFrom_NoBreak(idA, idB, i + 1)

\* The loop of DistPrefixLength from word i on.
RECURSIVE PrefixFrom(_, _, _)
PrefixFrom(idA, idB, i) ==
  IF i > IdWords THEN 0
  ELSE LET segDist == LeadingZeros(Xor(Word(idA, i), Word(idB, i)), WordBits)
       IN  IF segDist # WordBits THEN segDist ELSE segDist + PrefixFrom(idA, idB, i + 1)

DistPrefixLength(idA, idB) == PrefixFrom(idA, idB, 1)

\* A contact with this ID is in the bucket / in the table.
InBucket(bucket, id) == \E k \in 1..Len(bucket) : bucket[k].id = id

InTable(tbl, id) == \E b \in DOMAIN tbl : InBucket(tbl[b], id)

\* add_contact(c) on the table of the node with ID self: the node itself is
\* ignored; a contact of the bucket moves to its fresh end; a new contact is put
\* at the fresh end of a bucket with room and dropped when the bucket is full.
AddContact(tbl, self, c) ==
  IF c.id = self THEN tbl
  ELSE LET b == DistPrefixLength(self, c.id)
       IN  IF InBucket(tbl[b], c.id)
           THEN [tbl EXCEPT ![b] = Append(SelectSeq(@, LAMBDA x : x.id # c.id), c)]
           ELSE IF Len(tbl[b]) < KBUCKETVOLUME
           THEN [tbl EXCEPT ![b] = Append(@, c)]
           ELSE tbl

\* node.Handler: the response to a request has the request's id, response = true,
\* the replier as sender and the requester's address as receiver.
GenerateResponse(rpc, me) ==
  [ZeroRPC EXCEPT !.id = rpc.id, !.cmd = rpc.cmd, !.response = TRUE, !.sender = me,
                  !.receiver = rpc.sender.ip]

\* !rpc.response: node.Handler(rpc), which adds the sender of the request to the
\* routing table and sends the response: Send with rpc.response puts the frame on
\* net.sender and returns.
RouteHandler(t) ==
  /\ t.pc = "route"
  /\ ~t.rpc.response
  /\ Len(listener) < LISTENER_CAP
  /\ LET rpc == [GenerateResponse(t.rpc, contact[t.node]) EXCEPT !.seq = Len(emitted) + 1]
     IN  /\ listener' = Append(listener, rpc)
         /\ emitted' = Append(emitted, rpc)
  /\ rt' = [rt EXCEPT ![t.node] = AddContact(@, contact[t.node].id, t.rpc.sender)]
  /\ nodeRoutes' = nodeRoutes \ {t}
  /\ UNCHANGED <<lookup, callVars, pinged, listenPc, nodeVars, simVars, simRoutes, mailbox, dropTasks, table, send>>

\* Ping returning without node.AddContact(res.sender).
PingAddContact_NoAdd(s) ==
  /\ send[s].pc = "done"
  /\ send[s].rpc.cmd = "PING"
  /\ s \notin pinged
  /\ pinged' = pinged \cup {s}
  /\ UNCHANGED <<lookup, callVars, rt, listenPc, nodeVars, simVars, listener, emitted,
                 simRoutes, mailbox, nodeRoutes, dropTasks, table, send>>

\* Node.Ping past its Send: node.AddContact(res.sender)
PingAddContact(s) ==
  /\ send[s].pc = "done"
  /\ send[s].rpc.cmd = "PING"
  /\ s \notin pinged
  /\ rt' = [rt EXCEPT ![send[s].node] =
              AddContact(@, contact[send[s].node].id, send[s].res.sender)]
  /\ pinged' = pinged \cup {s}
  /\ UNCHANGED <<lookup, callVars, listenPc, nodeVars, simVars, listener, emitted,
                 simRoutes, mailbox, nodeRoutes, dropTasks, table, send>>

\* A call of node.AddContact(c) on node n, from the handler of a request of c or
\* from a Ping that c answered.
AddContactCall(n, c) ==
  /\ Created(n)
  /\ rt' = [rt EXCEPT ![n] = AddContact(@, contact[n].id, c)]
  /\ UNCHANGED <<lookup, callVars, pinged, listenPc, nodeVars, simVars, listener, emitted,
                 simRoutes, mailbox, nodeRoutes, dropTasks, table, send>>

\* ------------------------------------------------ Simnet.SpawnCluster
\* cluster and nodes hold nodes; removeIndecies holds positions of cluster (from
\* 1 here); cur is the node of the running SpawnNode or ShutdownNode; visRes is
\* what the verifying FindNode returned for each node: nothing ("empty"), the
\* node itself first ("first") or another contact first ("other").
NoCluster ==
  [pc |-> "idle", size |-> 0, missingNodes |-> 0, cluster |-> <<>>, nodes |-> <<>>,
   i |-> 0, removeIndecies |-> <<>>, cur |-> 0, visRes |-> [n \in Nodes |-> "none"]]

\* for missingNodes > 0 { cluster := make(...) ... }; done <- struct{}{}; return nodes
ClusterLoop ==
  /\ cluster.pc = "loop"
  /\ cluster' = [cluster EXCEPT
                   !.pc = IF cluster.missingNodes > 0 THEN "spawn" ELSE "returned",
                   !.cluster = <<>>]
  /\ UNCHANGED <<lookup, account, tableVars, listenPc, nodeVars, simVars, listener,
                 emitted, simRoutes, mailbox, nodeRoutes, dropTasks, table, send>>

\* node := simnet.SpawnNode(clusterDone): the call of GenerateRandomNode begins
ClusterSpawnNode ==
  /\ cluster.pc = "spawn"
  /\ Len(cluster.cluster) < cluster.missingNodes
  /\ \E n \in Nodes :
       /\ nodePc[n] = "new"
       /\ \A k \in Nodes : nodePc[k] = "new" => n <= k
       /\ cluster' = [cluster EXCEPT !.pc = "spawning", !.cur = n]
  /\ UNCHANGED <<lookup, account, tableVars, listenPc, nodeVars, simVars, listener,
                 emitted, simRoutes, mailbox, nodeRoutes, dropTasks, table, send>>

\* The steps of the GenerateRandomNode that SpawnNode runs.
ClusterGenerate ==
  /\ cluster.pc = "spawning"
  /\ \/ GenLockChan(cluster.cur)
     \/ GenLockSpawned(cluster.cur)
     \/ GenPickID(cluster.cur)
     \/ GenPickIP(cluster.cur)
     \/ GenRegister(cluster.cur)

\* go newNode.Start(done); return newNode; cluster = append(cluster, node)
ClusterSpawned ==
  /\ cluster.pc = "spawning"
  /\ nodePc[cluster.cur] = "live"
  /\ cluster' = [cluster EXCEPT !.pc = "spawn", !.cluster = Append(@, cluster.cur)]
  /\ UNCHANGED <<lookup, account, tableVars, listenPc, nodeVars, simVars, listener,
                 emitted, simRoutes, mailbox, nodeRoutes, dropTasks, table, send>>

\* for range cluster { <-clusterDone }; time.Sleep; the first round of
\* masterNode.FindNode(n.ID()), whose results are dropped.
ClusterAwait ==
  /\ cluster.pc = "spawn"
  /\ Len(cluster.cluster) = cluster.missingNodes
  /\ cluster' = [cluster EXCEPT !.pc = "verify", !.i = 1, !.removeIndecies = <<>>]
  /\ UNCHANGED <<lookup, account, tableVars, listenPc, nodeVars, simVars, listener,
                 emitted, simRoutes, mailbox, nodeRoutes, dropTasks, table, send>>

\* What masterNode.FindNode may return: contacts of nodes that were spawned.
VisResults == SeqsUpTo({contact[k] : k \in {n \in Nodes : Created(n)}}, MaxReply)

\* visRes := simnet.masterNode.FindNode(n.ID()); a node that is not first in a
\* non-empty visRes goes to ShutdownNode.
ClusterVerify ==
  /\ cluster.pc = "verify"
  /\ cluster.i <= Len(cluster.cluster)
  /\ LET n == cluster.cluster[cluster.i]
     IN  \E visRes \in VisResults :
           IF Len(visRes) > 0
           THEN IF visRes[1].id # contact[n].id
                THEN cluster' = [cluster EXCEPT !.pc = "shutting", !.cur = n,
                                                !.visRes[n] = "other"]
                ELSE cluster' = [cluster EXCEPT !.i = @ + 1, !.visRes[n] = "first"]
           ELSE cluster' = [cluster EXCEPT !.i = @ + 1, !.visRes[n] = "empty"]
  /\ UNCHANGED <<lookup, account, tableVars, listenPc, nodeVars, simVars, listener,
                 emitted, simRoutes, mailbox, nodeRoutes, dropTasks, table, send>>

\* The steps of simnet.ShutdownNode(n).
ClusterShutdown ==
  /\ cluster.pc = "shutting"
  /\ \/ ShutLockChan(cluster.cur)
     \/ ShutLockSpawned(cluster.cur)
     \/ ShutDelete(cluster.cur)
     \/ ShutSignal(cluster.cur)

\* removeIndecies = append(removeIndecies, i)
ClusterShutDone ==
  /\ cluster.pc = "shutting"
  /\ nodePc[cluster.cur] = "down"
  /\ cluster' = [cluster EXCEPT !.pc = "verify", !.i = @ + 1,
                                !.removeIndecies = Append(@, cluster.i)]
  /\ UNCHANGED <<lookup, account, tableVars, listenPc, nodeVars, simVars, listener,
                 emitted, simRoutes, mailbox, nodeRoutes, dropTasks, table, send>>

\* slices.Reverse
RECURSIVE Reverse(_)
Reverse(s) == IF s = <<>> THEN <<>> ELSE Append(Reverse(Tail(s)), Head(s))

\* for _, i := range removeIndecies { cluster = slices.Delete(cluster, i, i+1) }
RECURSIVE DeleteEach(_, _)
DeleteEach(s, indecies) ==
  IF indecies = <<>> THEN s
  ELSE DeleteEach(SliceDelete(s, Head(indecies)), Tail(indecies))

\* The end of one round: the nodes shut down leave the cluster, the others are
\* appended to nodes; missingNodes = size - len(nodes).
ClusterCollect ==
  /\ cluster.pc = "verify"
  /\ cluster.i > Len(cluster.cluster)
  /\ LET kept == DeleteEach(cluster.cluster, Reverse(cluster.removeIndecies))
     IN  cluster' = [cluster EXCEPT !.pc = "loop", !.nodes = @ \o kept,
                                    !.cluster = <<>>,
                                    !.missingNodes = cluster.size - Len(cluster.nodes \o kept)]
  /\ UNCHANGED <<lookup, account, tableVars, listenPc, nodeVars, simVars, listener,
                 emitted, simRoutes, mailbox, nodeRoutes, dropTasks, table, send>>

\* ------------------------------------------------------ specifications
\* No frame in flight, no call of Send started, every Listen loop running.
NoFrames ==
  /\ listener = <<>>
  /\ emitted = <<>>
  /\ simRoutes = {}
  /\ mailbox = [n \in Nodes |-> <<>>]
  /\ nodeRoutes = {}
  /\ dropTasks = {}
  /\ table = [n \in Nodes |-> EmptyMap]
  /\ send = [s \in Sends |->
              [pc |-> "idle", node |-> 0, err |-> FALSE, res |-> ZeroRPC, rpc |-> ZeroRPC]]
  /\ pinged = {}
  /\ listenPc = [n \in Nodes |-> "open"]

Quiet ==
  /\ NoFrames
  /\ lookup = NoLookup
  /\ account = NoAccount
  /\ cluster = NoCluster
  /\ rt = [n \in Nodes |-> NewRoutingTable]

\* The records of the simnet where NewServer and NetNodes - 1 calls of SpawnNode
\* have returned.
NetUp ==
  /\ contact = [n \in Nodes |-> IF n <= NetNodes THEN NewContact(n - 1, n) ELSE ZeroContact]
  /\ spawnedId = {n \in Nodes : n <= NetNodes}
  /\ spawnedIp = {n - 1 : n \in {m \in Nodes : m <= NetNodes}}
  /\ spawnedNodes = [n \in 1..NetNodes |-> NewContact(n - 1, n)]
  /\ chanContent = [ip \in 0..(NetNodes - 1) |-> ip + 1]
  /\ nodePc = [n \in Nodes |-> IF n <= NetNodes THEN "live" ELSE "new"]

\* SimSpec starts where NewServer returns: empty records, then the master node
\* (node 1) from GenerateRandomNode.
SimInit ==
  /\ \E id \in NodeIDs, ip \in IPs :
       /\ contact = [n \in Nodes |-> IF n = 1 THEN NewContact(ip, id) ELSE ZeroContact]
       /\ spawnedId = {id}
       /\ spawnedIp = {ip}
       /\ spawnedNodes = <<NewContact(ip, id)>>
       /\ chanContent = MapPut(EmptyMap, ip, 1)
  /\ nodePc = [n \in Nodes |-> IF n = 1 THEN "live" ELSE "new"]
  /\ dropPercent \in {0, 50}
  /\ Quiet

\* Spec starts where NewServer and NetNodes - 1 calls of SpawnNode have returned:
\* node n has drawn the ID n and the address n - 1 (any other draw is a renaming).
NetContact(n) == IF n <= NetNodes THEN NewContact(n - 1, n) ELSE ZeroContact

Init ==
  /\ contact = [n \in Nodes |-> NetContact(n)]
  /\ spawnedId = {n \in Nodes : n <= NetNodes}
  /\ spawnedIp = {n - 1 : n \in {m \in Nodes : m <= NetNodes}}
  /\ spawnedNodes = [n \in 1..NetNodes |-> NetContact(n)]
  /\ chanContent = [ip \in 0..(NetNodes - 1) |-> ip + 1]
  /\ nodePc = [n \in Nodes |-> IF n <= NetNodes THEN "live" ELSE "new"]
  /\ dropPercent \in {0, 50}
  /\ Quiet

Transport ==
  \/ StartServer
  \/ \E t \in simRoutes : RouteLookup(t)
  \/ \E t \in simRoutes : RouteEnter(t)
  \/ \E t \in simRoutes : RouteRoll(t)
  \/ \E t \in simRoutes : RouteSend(t)

Adapter ==
  \/ \E n \in Nodes : Listen(n)
  \/ \E t \in nodeRoutes : RouteRetrieve(t)
  \/ \E t \in nodeRoutes : RouteNoMatch(t)
  \/ \E t \in nodeRoutes : RoutePost(t)
  \/ \E t \in nodeRoutes : RouteHandler(t)
  \/ \E d \in dropTasks : RunDropChan(d)

Registry ==
  \/ \E n \in Nodes : GenLockChan(n)
  \/ \E n \in Nodes : GenLockSpawned(n)
  \/ \E n \in Nodes : GenPickID(n)
  \/ \E n \in Nodes : GenPickIP(n)
  \/ \E n \in Nodes : GenRegister(n)
  \/ \E n \in Nodes : ShutLockChan(n)
  \/ \E n \in Nodes : ShutLockSpawned(n)
  \/ \E n \in Nodes : ShutDelete(n)
  \/ \E n \in Nodes : ShutSignal(n)

\* The nodes' calls of Send over the transport, among nodes that stay up.
Next ==
  \/ \E s \in Sends : SendAdd(s)
  \/ \E s \in Sends : SendEmit(s)
  \/ Transport
  \/ Adapter

Spec == Init /\ [][Next]_vars

\* The simnet spawning and shutting down nodes while frames are routed.
SimNext ==
  \/ Registry
  \/ \E s \in 1..MaxSimSends : SendAdd(s)
  \/ \E s \in 1..MaxSimSends : SendEmit(s)
  \/ Transport
  \/ Adapter

SimSpec == SimInit /\ [][SimNext]_vars

\* Spec with the scheduling of goroutines: a step that stays possible is taken.
Fairness ==
  /\ WF_vars(\E s \in Sends : SendEmit(s))
  /\ WF_vars(Transport)
  /\ WF_vars(Adapter)

FairSpec == Spec /\ Fairness

\* =============================================================== claims

\* C1: every Send of a request frame eventually returns to its caller (with the
\* response, or with a Timeout error once the response does not come).  Send has
\* no other way to return than the response, so the claim is that every call that
\* waits on its response channel gets to "done".
C1_SendReturns == \A s \in Sends : (send[s].pc = "wait") ~> (send[s].pc = "done")

\* C2: a frame handed to a waiter blocked in Send (by a route task about to post
\* on its channel, or already received) has the id Send gave that waiter's request.
C2_Correlation ==
  /\ \A s \in Sends : send[s].pc = "done" => send[s].res.id = send[s].rpc.id
  /\ \A t \in nodeRoutes :
       (t.pc = "post" /\ t.respChan \in Sends) => t.rpc.id = send[t.respChan].rpc.id

\* Two requests with different ids in flight at one node, one already answered.
C2_Witness ==
  \E s1, s2 \in Sends :
    /\ send[s1].pc = "done" /\ send[s2].pc = "wait"
    /\ send[s1].node = send[s2].node
    /\ send[s1].rpc.id # send[s2].rpc.id
    /\ ~send[s2].err

\* The deliveries to the channel of call s: the route tasks that retrieved it and
\* are about to post on it, and the frame its Send has received.
Deliveries(s) ==
  Cardinality({t \in nodeRoutes : t.pc = "post" /\ t.respChan = s})
    + (IF send[s].pc = "done" THEN 1 ELSE 0)

\* C3: for one registration of an id, deliver succeeds at most once.
C3_AtMostOnce == \A s \in Sends : Deliveries(s) <= 1

\* Two responses with one id came to one node: one was handed to the waiter, the
\* other found no matching id.
C3_Witness ==
  \E s \in Sends : \E t \in nodeRoutes :
    /\ send[s].pc = "done"
    /\ t.pc = "nomatch" /\ t.node = send[s].node /\ t.rpc.id = send[s].rpc.id

\* C4: Add on an id in the table fails and changes neither the table nor any
\* waiter; on an absent id it adds exactly the entry id -> fresh channel.
C4_Add ==
  [][\A s \in Sends :
       (send[s].pc = "idle" /\ send'[s].pc = "emit") =>
         LET n  == send'[s].node
             id == send'[s].rpc.id
         IN  /\ \A s0 \in Sends \ {s} : send'[s0] = send[s0]
             /\ \A m \in Nodes \ {n} : table'[m] = table[m]
             /\ IF MapHas(table[n], id)
                THEN send'[s].err /\ table'[n] = table[n]
                ELSE /\ ~send'[s].err
                     /\ DOMAIN table'[n] = (DOMAIN table[n]) \cup {id}
                     /\ table'[n][id] = s
                     /\ \A k \in DOMAIN table[n] : table'[n][k] = table[n][k]]_vars

\* A call whose id was in use: the entry still names the earlier call's channel.
C4_Witness ==
  \E s \in Sends :
    /\ send[s].pc = "emit" /\ send[s].err
    /\ MapHas(table[send[s].node], send[s].rpc.id)
    /\ table[send[s].node][send[s].rpc.id] # s

\* The registration of call s was removed by DropChan: it registered, it has not
\* been retrieved, and the table no longer holds its channel.
Cancelled(s) ==
  /\ send[s].pc \in {"emit", "wait"}
  /\ ~send[s].err
  /\ \A k \in DOMAIN table[send[s].node] : table[send[s].node][k] # s
  /\ \A t \in nodeRoutes : t.respChan # s

\* A route task that finds no entry for the id of its response frame.
Misses(t) == t.pc = "route" /\ t.rpc.response /\ ~MapHas(table[t.node], t.rpc.id)

\* C5: after a registration has been cancelled no response reaches its waiter,
\* and the step of a route task that finds no matching id only moves that task
\* to its log line: tables, waiters and clean-up tasks stay as they are.
C5_LateResponse ==
  [][/\ \A s \in Sends : Cancelled(s) => Cancelled(s)'
     /\ \A t \in nodeRoutes :
          (Misses(t) /\ t \notin nodeRoutes') =>
            /\ table' = table /\ send' = send /\ dropTasks' = dropTasks
            /\ nodeRoutes' = (nodeRoutes \ {t}) \cup {[t EXCEPT !.pc = "nomatch"]}]_vars

\* A cancelled registration whose response arrived and found no matching id.
C5_Witness ==
  \E s \in Sends : \E t \in nodeRoutes :
    /\ Cancelled(s)
    /\ t.pc = "nomatch" /\ t.node = send[s].node /\ t.rpc.id = send[s].rpc.id

\* C6: frames for one mailbox are placed into it in the order they entered the
\* transport's listener channel.
C6_MailboxFIFO ==
  \A n \in Nodes : \A i, j \in 1..Len(mailbox[n]) :
    i < j => mailbox[n][i].seq < mailbox[n][j].seq

\* C7: no task holds a mutex while it performs a channel send: not Route at
\* routeChan <- rpc, not ShutdownNode at node.shutdown <- struct{}{}.
C7_NoLockAcrossChannelOp ==
  /\ \A t \in simRoutes : t.pc = "send" => t \notin ChanReaders \cup SpawnedReaders
  /\ \A n \in Nodes : nodePc[n] = "s_sig" => n \notin ChanWriters \cup SpawnedWriters

\* The nodes the simnet has returned and not shut down.
Live(n) == nodePc[n] \in {"live", "s_chan", "s_del"}

\* C8: no two contacts of registry.nodes share an ID or an Address (so none is
\* there twice), and no two live nodes do.
C8_RegistryUnique ==
  /\ \A i, j \in 1..Len(spawnedNodes) :
       i # j => /\ spawnedNodes[i].id # spawnedNodes[j].id
                /\ spawnedNodes[i].ip # spawnedNodes[j].ip
  /\ \A n, m \in Nodes :
       (n # m /\ Live(n) /\ Live(m)) =>
         contact[n].id # contact[m].id /\ contact[n].ip # contact[m].ip

\* A node was shut down and its ID drawn again by a later node, beside the master.
C8_Witness ==
  \E n, m \in Nodes :
    /\ nodePc[n] = "down" /\ nodePc[m] = "live"
    /\ contact[m].id = contact[n].id
    /\ Len(spawnedNodes) = 2

InRegistry(c) == \E i \in 1..Len(spawnedNodes) : spawnedNodes[i] = c

\* What C9 says of an ENTER frame f past the rewrite.
EnterShape(f) ==
  /\ f.response
  /\ f.id = emitted[f.seq].id /\ f.receiver = emitted[f.seq].receiver
  /\ Len(f.foundNodes) = 2

\* C9: an ENTER frame delivered to a mailbox is a response with the request's id
\* and receiver and two found nodes; the two are contacts of registry.nodes while
\* Route routes the frame (until its return); the registry is not empty when
\* Route samples it, and no sample is out of range.
C9_EnterFrames ==
  /\ \A n \in Nodes : \A i \in 1..Len(mailbox[n]) :
       mailbox[n][i].cmd = "ENTER" => EnterShape(mailbox[n][i])
  /\ \A t \in simRoutes :
       /\ t.pc # "panic"
       /\ t.pc = "enter" => Len(spawnedNodes) > 0
       /\ (t.rpc.cmd = "ENTER" /\ t.pc \in {"roll", "send"}) =>
            /\ EnterShape(t.rpc)
            /\ InRegistry(t.rpc.foundNodes[1]) /\ InRegistry(t.rpc.foundNodes[2])

\* An ENTER frame delivered with two different seeds.
C9_Witness ==
  \E n \in Nodes : \E i \in 1..Len(mailbox[n]) :
    /\ mailbox[n][i].cmd = "ENTER"
    /\ mailbox[n][i].foundNodes[1] # mailbox[n][i].foundNodes[2]

\* One call of FindNode(target) on a node whose peers answer each FIND_NODE with
\* any list of contacts; no other frame is in flight.
LookupInit ==
  /\ contact = [n \in Nodes |-> NetContact(n)]
  /\ spawnedId = {n \in Nodes : n <= NetNodes}
  /\ spawnedIp = {n - 1 : n \in {m \in Nodes : m <= NetNodes}}
  /\ spawnedNodes = [n \in 1..NetNodes |-> NetContact(n)]
  /\ chanContent = [ip \in 0..(NetNodes - 1) |-> ip + 1]
  /\ nodePc = [n \in Nodes |-> IF n <= NetNodes THEN "live" ELSE "new"]
  /\ dropPercent = 0
  /\ listener = <<>>
  /\ emitted = <<>>
  /\ simRoutes = {}
  /\ mailbox = [n \in Nodes |-> <<>>]
  /\ nodeRoutes = {}
  /\ dropTasks = {}
  /\ table = [n \in Nodes |-> EmptyMap]
  /\ send = [s \in Sends |->
              [pc |-> "idle", node |-> 0, err |-> FALSE, res |-> ZeroRPC, rpc |-> ZeroRPC]]
  /\ account = NoAccount
  /\ cluster = NoCluster
  /\ rt = [n \in Nodes |-> NewRoutingTable]
  /\ pinged = {}
  /\ listenPc = [n \in Nodes |-> "open"]
  /\ \E target \in LookupIDs : \E initNodes \in InitLists(target) :
       lookup = [NoLookup EXCEPT !.pc = "query", !.target = target,
                                 !.prevContactList = initNodes]

LookupNext ==
  \/ LaunchQueries
  \/ ExtractReply
  \/ ProcessReplies

LookupSpec == LookupInit /\ [][LookupNext]_vars

\* The distance d(a, target) = a XOR target as one number, and the least
\* distance to target among the contacts of a non-empty list, whatever its order.
Dist(a, target) == Xor(a, target)

ClosestDist(list, target) ==
  LET ds == {Dist(list[i].id, target) : i \in 1..Len(list)}
  IN  CHOOSE d \in ds : \A e \in ds : d <= e

\* C10 as claimed: the closest distance does not grow from one iteration to the
\* next, and the closest contact of the returned list is not farther from target
\* than the closest contact of the shortlist probed in the final iteration.
C10_MonotoneLookup ==
  (lookup.pc = "returned" /\ lookup.found # <<>> /\ lookup.prevContactList # <<>>) =>
    ClosestDist(lookup.found, lookup.target)
      <= ClosestDist(lookup.prevContactList, lookup.target)

\* What does hold of the iterations: whenever the loop goes on to another
\* iteration the closest contact of the new shortlist is strictly closer to target
\* than the closest contact of the shortlist just probed; when it returns, it
\* returns the shortlist (all replies empty) or candidates whose closest contact is
\* not closer than the closest contact of the shortlist just probed.
ContinuedIterationsCloser ==
  [][/\ (lookup.pc = "collect" /\ lookup'.pc = "query") =>
          /\ lookup.prevContactList # <<>> /\ lookup'.prevContactList # <<>>
          /\ ClosestDist(lookup'.prevContactList, lookup.target)
               < ClosestDist(lookup.prevContactList, lookup.target)
     /\ (lookup.pc = "collect" /\ lookup'.pc = "returned") =>
          \/ lookup'.contactList = <<>> /\ lookup'.found = lookup.prevContactList
          \/ /\ lookup'.found = lookup'.contactList /\ lookup'.found # <<>>
             /\ lookup.prevContactList # <<>>
             /\ ClosestDist(lookup'.found, lookup.target)
                  >= ClosestDist(lookup.prevContactList, lookup.target)]_vars

\* A lookup that went through three iterations and returned candidates farther
\* from target than the last shortlist.
FartherAfterThreeIterations ==
  /\ lookup.pc = "returned" /\ lookup.iter >= 3
  /\ lookup.found # <<>>
  /\ ClosestDist(lookup.found, lookup.target)
       > ClosestDist(lookup.prevContactList, lookup.target)

\* One call of StoreAccount(accID) and then one of FindAccount(accID), or of
\* FindAccount alone, on a node whose peers answer every request.
AccountInit ==
  /\ NetUp
  /\ dropPercent = 0
  /\ NoFrames
  /\ lookup = NoLookup
  /\ cluster = NoCluster
  /\ rt = [n \in Nodes |-> NewRoutingTable]
  /\ \E accID \in LookupIDs : account = [NoAccount EXCEPT !.pc = "start", !.accID = accID]

AccountNext ==
  \/ StoreAccount
  \/ FindAccountStart
  \/ FindAccountQuery
  \/ PushSucc
  \/ PushFalse
  \/ CountReply
  \/ FindAccountReturn

AccountSpec == AccountInit /\ [][AccountNext]_vars

\* Every queried node replied with findAccountSucc = true.
AllConfirmed ==
  /\ Len(account.replies) = Len(account.closeNodes)
  /\ \A i \in 1..Len(account.replies) : account.replies[i]

\* C11: a FindAccount that queried at least one node returns a nil error if and
\* only if every node it queried replied with found_record_ok = true; otherwise
\* it returns an error.
C11_FindAccountResult ==
  (account.pc = "returned" /\ account.closeNodes # <<>>) =>
    (~account.err <=> AllConfirmed)

\* The calls of one goroutine: a step that is possible is taken.
AccountFairSpec == AccountSpec /\ WF_vars(AccountNext)

\* C12: once StoreAccount(k) has completed, the FindAccount(k) that follows
\* returns, and returns a nil error.
C12_StoreThenFind ==
  account.stored ~> (account.pc = "returned" /\ ~account.err)

\* The ID with only the first bit set: its shared prefix with a small ID is 0.
HighID == 2 ^ (KEYSPACE - 1)

TableIDs == (1..MaxTableId) \cup {HighID}

\* The routing table of one node (node 1, whose ID is 1 or HighID) under calls of
\* AddContact with any contact.
RtInit ==
  /\ \E id \in {1, HighID} :
       /\ contact = [n \in Nodes |-> IF n = 1 THEN NewContact(ZeroIP, id) ELSE ZeroContact]
       /\ spawnedId = {id}
       /\ spawnedNodes = <<NewContact(ZeroIP, id)>>
  /\ spawnedIp = {ZeroIP}
  /\ chanContent = MapPut(EmptyMap, ZeroIP, 1)
  /\ nodePc = [n \in Nodes |-> IF n = 1 THEN "live" ELSE "new"]
  /\ dropPercent = 0
  /\ Quiet

RtNext == \E c \in {ContactOf(id) : id \in TableIDs} : AddContactCall(1, c)

RtSpec == RtInit /\ [][RtNext]_vars

\* The number of bits of x, and the shared-prefix length of two IDs: the leading
\* zero bits of a XOR b among the KEYSPACE bits of an ID.
RECURSIVE BitLength(_)
BitLength(x) == IF x = 0 THEN 0 ELSE 1 + BitLength(x \div 2)

SharedPrefix(a, b) == KEYSPACE - BitLength(Xor(a, b))

\* C14: every bucket holds at most K contacts, no contact ID is twice in the
\* table, every contact is in the bucket of its shared-prefix length with the
\* local ID, and the local ID is not in the table.
C14_Buckets ==
  \A n \in Nodes :
    /\ \A b \in DOMAIN rt[n] :
         /\ Len(rt[n][b]) <= KBUCKETVOLUME
         /\ \A k \in 1..Len(rt[n][b]) :
              /\ rt[n][b][k].id # contact[n].id
              /\ SharedPrefix(contact[n].id, rt[n][b][k].id) = b
    /\ \A b1, b2 \in DOMAIN rt[n] : \A k1 \in 1..Len(rt[n][b1]) : \A k2 \in 1..Len(rt[n][b2]) :
         (rt[n][b1][k1].id = rt[n][b2][k2].id) => (b1 = b2 /\ k1 = k2)

\* A full bucket, with more contacts of its prefix length than it holds.
C14_Witness ==
  \E b \in DOMAIN rt[1] :
    /\ Len(rt[1][b]) = KBUCKETVOLUME
    /\ \E id \in TableIDs :
         /\ id # contact[1].id /\ SharedPrefix(contact[1].id, id) = b
         /\ ~InBucket(rt[1][b], id)

\* What the bucket of a node for the other node may hold before the ping:
\* nothing, KBUCKETVOLUME other contacts, or the other node among others.
PriorBuckets(other, first) ==
  LET fillers == [k \in 1..KBUCKETVOLUME |-> ContactOf(first + k)]
  IN  {<<>>, fillers, <<other>> \o SubSeq(fillers, 1, KBUCKETVOLUME - 1)}

\* Two live nodes, node 1 with the ID 1 and node 2 with the ID HighID, so that
\* each is of bucket 0 of the other, with prior contents of their routing tables.
PingInit ==
  /\ contact = [n \in Nodes |-> IF n = 1 THEN NewContact(0, 1)
                                ELSE IF n = 2 THEN NewContact(1, HighID) ELSE ZeroContact]
  /\ spawnedId = {1, HighID}
  /\ spawnedIp = {0, 1}
  /\ spawnedNodes = <<NewContact(0, 1), NewContact(1, HighID)>>
  /\ chanContent = [ip \in {0, 1} |-> ip + 1]
  /\ nodePc = [n \in Nodes |-> IF n <= 2 THEN "live" ELSE "new"]
  /\ dropPercent \in {0, 50}
  /\ NoFrames
  /\ lookup = NoLookup
  /\ account = NoAccount
  /\ cluster = NoCluster
  /\ \E b1 \in PriorBuckets(NewContact(1, HighID), HighID) :
       \E b2 \in PriorBuckets(NewContact(0, 1), 1) :
         rt = [n \in Nodes |-> IF n = 1 THEN [NewRoutingTable EXCEPT ![0] = b1]
                               ELSE IF n = 2 THEN [NewRoutingTable EXCEPT ![0] = b2]
                               ELSE NewRoutingTable]

\* Calls of Node.Ping and Node.Enter over the transport.
PingNext ==
  \/ \E s \in Sends : SendAdd(s)
  \/ \E s \in Sends : SendEmit(s)
  \/ \E s \in Sends : PingAddContact(s)
  \/ Transport
  \/ Adapter

PingSpec == PingInit /\ [][PingNext]_vars

\* The Ping of call s has returned, and node n, another node than the caller,
\* is the node that answered it.
PingAnsweredBy(s, n) ==
  /\ s \in pinged
  /\ n # send[s].node
  /\ Created(n)
  /\ send[s].res.sender = contact[n]

\* The bucket of the table of a node with ID self in which id belongs is full.
BucketFull(tbl, self, id) == Len(tbl[DistPrefixLength(self, id)]) = KBUCKETVOLUME

\* C13 as claimed: after m's ping of n has returned with a response, m's routing
\* table contains n and n's contains m, whatever the tables held before.
C13_PingBothWays ==
  \A s \in Sends : \A n \in Nodes :
    PingAnsweredBy(s, n) =>
      /\ InTable(rt[send[s].node], contact[n].id)
      /\ InTable(rt[n], contact[send[s].node].id)

\* C13 amended: after m's ping of n has returned with a response, m's routing
\* table contains n unless m's bucket for n is full of other contacts, and n's
\* contains m unless n's bucket for m is full of other contacts.
C13_PingBothWaysUnlessFull ==
  \A s \in Sends : \A n \in Nodes :
    PingAnsweredBy(s, n) =>
      LET m == send[s].node
      IN  /\ InTable(rt[m], contact[n].id) \/ BucketFull(rt[m], contact[m].id, contact[n].id)
          /\ InTable(rt[n], contact[m].id) \/ BucketFull(rt[n], contact[n].id, contact[m].id)

\* A ping that returned and left each node in the table of the other, the
\* caller's bucket holding other contacts too.
C13_Witness ==
  \E s \in Sends : \E n \in Nodes :
    /\ PingAnsweredBy(s, n)
    /\ InTable(rt[send[s].node], contact[n].id)
    /\ InTable(rt[n], contact[send[s].node].id)
    /\ Len(rt[send[s].node][0]) > 1

\* One call of SpawnCluster(size) on a simnet that NewServer has returned.
ClusterInit ==
  /\ \E id \in NodeIDs, ip \in IPs :
       /\ contact = [n \in Nodes |-> IF n = 1 THEN NewContact(ip, id) ELSE ZeroContact]
       /\ spawnedId = {id}
       /\ spawnedIp = {ip}
       /\ spawnedNodes = <<NewContact(ip, id)>>
       /\ chanContent = MapPut(EmptyMap, ip, 1)
  /\ nodePc = [n \in Nodes |-> IF n = 1 THEN "live" ELSE "new"]
  /\ dropPercent \in {0, 50}
  /\ NoFrames
  /\ lookup = NoLookup
  /\ account = NoAccount
  /\ rt = [n \in Nodes |-> NewRoutingTable]
  /\ \E size \in 1..MaxCluster :
       cluster = [NoCluster EXCEPT !.pc = "loop", !.size = size, !.missingNodes = size]

ClusterNext ==
  \/ ClusterLoop
  \/ ClusterSpawnNode
  \/ ClusterGenerate
  \/ ClusterSpawned
  \/ ClusterAwait
  \/ ClusterVerify
  \/ ClusterShutdown
  \/ ClusterShutDone
  \/ ClusterCollect

ClusterSpec == ClusterInit /\ [][ClusterNext]_vars

\* C15: SpawnCluster(size) returns exactly size nodes, none of them shut down,
\* and for each of them the verifying FindNode of its ID from the master node
\* returned it as the first contact.
C15_ClusterVerified ==
  cluster.pc = "returned" =>
    /\ Len(cluster.nodes) = cluster.size
    /\ \A k \in 1..Len(cluster.nodes) :
         /\ nodePc[cluster.nodes[k]] = "live"
         /\ cluster.visRes[cluster.nodes[k]] = "first"

\* The distance to target of the first contact of a list.
FirstDist(list, target) == Dist(list[1].id, target)

\* C16: a find_node call makes finitely many iterations.  An iteration that goes
\* on has a first candidate strictly closer to target than the first contact of
\* the shortlist it probed; the loop returns when all replies are empty or the
\* first candidate is not closer than the first contact of the shortlist.  So
\* the number of iterations begun plus the distance of the first contact of the
\* shortlist never exceeds the number of distances, 2^KEYSPACE, and the loop is
\* always at a step it can take until it has returned.
C16_LookupTerminates ==
  /\ [][/\ (lookup.pc = "collect" /\ lookup'.pc = "query") =>
             /\ lookup.prevContactList # <<>> /\ lookup'.prevContactList # <<>>
             /\ FirstDist(lookup'.prevContactList, lookup.target)
                  < FirstDist(lookup.prevContactList, lookup.target)
        /\ (lookup.pc = "collect" /\ lookup'.pc = "returned") =>
             \/ lookup'.contactList = <<>>
             \/ /\ lookup.prevContactList # <<>>
                /\ FirstDist(lookup'.contactList, lookup.target)
                     >= FirstDist(lookup.prevContactList, lookup.target)]_vars
  /\ [](/\ lookup.pc \in {"query", "collect", "returned"}
        /\ lookup.waiting \in 0..REPLICATION
        /\ lookup.iter <= 2 ^ KEYSPACE
        /\ (lookup.pc # "returned" /\ lookup.prevContactList # <<>>) =>
             lookup.iter + FirstDist(lookup.prevContactList, lookup.target) <= 2 ^ KEYSPACE)

\* A lookup that returned after three iterations.
C16_Witness == lookup.pc = "returned" /\ lookup.iter >= 3

\* C17: within one lookup no contact is sent more than one FIND_NODE: an
\* iteration queries only contacts that no earlier iteration queried, each once.
C17_ProbedOnce ==
  [][(lookup.pc = "query" /\ lookup'.pc = "collect") =>
       /\ \A k \in 1..Len(lookup.prevContactList) :
            lookup.prevContactList[k].id \notin lookup.probed
       /\ \A k1, k2 \in 1..Len(lookup.prevContactList) :
            lookup.prevContactList[k1].id = lookup.prevContactList[k2].id => k1 = k2]_vars

\* C18: every request frame that Send has put on the outbound channel has a
\* pending-table entry made by that call of Send: the Add of the id the frame
\* carries did not fail (Send draws again when it does).
C18_EmittedIsRegistered ==
  \A s \in Sends : send[s].pc \in {"wait", "done"} => ~send[s].err

\* Nodes that are shut down while frames are routed to them.  The return of
\* route after a response found no channel (RouteNoMatch) only ends that
\* goroutine; it is left out here, the goroutine's record stays in nodeRoutes.
ShutNext ==
  \/ \E n \in Nodes : ShutLockChan(n)
  \/ \E n \in Nodes : ShutLockSpawned(n)
  \/ \E n \in Nodes : ShutDelete(n)
  \/ \E n \in Nodes : ShutSignal(n)
  \/ \E n \in Nodes : NodeShutdown(n)
  \/ \E n \in Nodes : ListenClosed(n)
  \/ \E s \in 1..MaxSimSends : SendAdd(s)
  \/ \E s \in 1..MaxSimSends : SendEmit(s)
  \/ Transport
  \/ \E n \in Nodes : Listen(n)
  \/ \E t \in nodeRoutes : RouteRetrieve(t)
  \/ \E t \in nodeRoutes : RoutePost(t)
  \/ \E t \in nodeRoutes : RouteHandler(t)
  \/ \E d \in dropTasks : RunDropChan(d)

\* The goroutines of a node run: it takes the shutdown signal, and its Listen
\* loop receives while there is something to receive.
ShutFairness ==
  \A n \in Nodes :
    /\ WF_vars(NodeShutdown(n))
    /\ WF_vars(Listen(n))
    /\ WF_vars(ListenClosed(n))

ShutSpec == Init /\ [][ShutNext]_vars /\ ShutFairness

C20_RemovedByOwnDelivery ==
  [][\A n \in Nodes : \A id \in DOMAIN table[n] :
       (id \notin DOMAIN table'[n] \/ table'[n][id] # table[n][id]) =>
         \E t \in nodeRoutes' \ nodeRoutes :
           /\ t.pc = "post" /\ t.node = n
           /\ t.rpc.id = id /\ t.respChan = table[n][id]]_vars

\* Neither GenerateRandomNode nor ShutdownNode holds a lock of the simnet.
NoCriticalSection == ChanWriters = {} /\ SpawnedWriters = {}

\* The contacts of spawned.nodes that have the address ip.
ContactsAt(ip) == {i \in 1..Len(spawnedNodes) : spawnedNodes[i].ip = ip}

\* chanTable.content, spawned.ip and spawned.nodes name the same addresses, each
\* once in spawned.nodes, with an ID that spawned.id holds.
RecordsAgree ==
  \A ip \in IPs :
    /\ MapHas(chanContent, ip) <=> ip \in spawnedIp
    /\ ip \in spawnedIp <=> Cardinality(ContactsAt(ip)) = 1
    /\ \A i \in ContactsAt(ip) : spawnedNodes[i].id \in spawnedId

\* C21: whenever neither GenerateRandomNode nor ShutdownNode is inside its
\* critical section, an address has a mailbox iff it is in spawned.ip iff exactly
\* one contact of spawned.nodes has it, and that contact's ID is in spawned.id;
\* and once ShutdownNode(n) has returned, no step puts a frame in n's mailbox.
C21_RecordsAgree ==
  /\ [](NoCriticalSection => RecordsAgree)
  /\ [][\A n \in Nodes :
          nodePc[n] = "down" => Len(mailbox'[n]) <= Len(mailbox[n])]_vars

\* A node was shut down, a later node drew its address, and Route has delivered
\* a frame sent to that address to the later node's mailbox.
C21_Witness ==
  /\ NoCriticalSection
  /\ \E n, m \in Nodes :
       /\ nodePc[n] = "down" /\ nodePc[m] = "live"
       /\ contact[m].ip = contact[n].ip
       /\ mailbox[m] # <<>>

====
